---- MODULE Spec2Model ----
(***************************************************************************)
(* Model of the NOLA news crawler (newscrawler.py) and of the document     *)
(* parser of the embedding script (article_vectorize.py).                  *)
(*                                                                         *)
(* Python strings are modelled as sequences of one-character strings, so   *)
(* that slicing, stripping, splitting and substring search are computed    *)
(* as the code computes them.                                              *)
(***************************************************************************)
EXTENDS Integers, Sequences, FiniteSets, TLC

VARIABLES
    today,          \* the wall-clock day (dt.date.today, dt.datetime.now)
    box_ledger,     \* articles.json in the Box folder: [kind, recs]
    box_files,      \* the .md documents in the Box folder, by name
    out_files,      \* the .md documents in the local out/ directory, by name
    pc,             \* position of the crawler process in main()
    run_result,     \* how the last process ended
    feed,           \* the entries fetch_rss_entries yields in every run
    idx,            \* index of the entry the for loop is at
    articles,       \* main(): articles
    seen,           \* main(): seen
    new_articles,   \* main(): new_articles
    title_ext,      \* main(): title_ext of the entry being processed
    text,           \* main(): text of the entry being processed
    rec,            \* main(): rec of the entry being processed
    md_filename,    \* main(): md_filename of the entry being processed
    outcomes,       \* terminal state of every entry examined in this run
    ledger0,        \* the remote ledger as this run's load left it
    prev_result,    \* how the process before this one ended
    fn_in,          \* argument of the pure function under check
    fn_out          \* its result

vars == <<today, box_ledger, box_files, out_files, pc, run_result, feed, idx,
          articles, seen, new_articles, title_ext, text, rec, md_filename,
          outcomes, ledger0, prev_result, fn_in, fn_out>>

crawl_vars == <<today, box_ledger, box_files, out_files, pc, run_result, feed,
                idx, articles, seen, new_articles, title_ext, text, rec,
                md_filename, outcomes, ledger0, prev_result>>

----------------------------------------------------------------------------
(* Bounds of the model.                                                    *)

MaxFeed == 2
MaxDay == 2

----------------------------------------------------------------------------
(* Character data.                                                         *)

UpperSeq == <<"A", "B", "C", "D", "E", "F", "G", "H", "I", "J", "K", "L", "M", "N", "O", "P", "Q", "R", "S", "T", "U", "V", "W", "X", "Y", "Z">>
LowerSeq == <<"a", "b", "c", "d", "e", "f", "g", "h", "i", "j", "k", "l", "m", "n", "o", "p", "q", "r", "s", "t", "u", "v", "w", "x", "y", "z">>
DigitSeq == <<"0", "1", "2", "3", "4", "5", "6", "7", "8", "9">>

Whitespace == {" ", "\t", "\n", "\r", "\f"}

Range(s) == {s[i] : i \in 1..Len(s)}

\* str.isalnum for one character
IsAlnum(c) == c \in Range(UpperSeq) \cup Range(LowerSeq) \cup Range(DigitSeq)

\* str.lower
Lower(s) ==
    [i \in 1..Len(s) |->
        IF \E j \in 1..Len(UpperSeq) : UpperSeq[j] = s[i]
        THEN LowerSeq[CHOOSE j \in 1..Len(UpperSeq) : UpperSeq[j] = s[i]]
        ELSE s[i]]

\* k in s, for strings
IsSubstr(k, s) ==
    \E i \in 1..(Len(s) - Len(k) + 1) : SubSeq(s, i, i + Len(k) - 1) = k

\* s[:n]
Prefix(s, n) == SubSeq(s, 1, IF Len(s) < n THEN Len(s) ELSE n)

\* str.rstrip()
RECURSIVE RStrip(_)
RStrip(s) ==
    IF s # <<>> /\ s[Len(s)] \in Whitespace THEN RStrip(SubSeq(s, 1, Len(s) - 1)) ELSE s

\* str.lstrip()
RECURSIVE LStrip(_)
LStrip(s) ==
    IF s # <<>> /\ s[1] \in Whitespace THEN LStrip(Tail(s)) ELSE s

\* str.strip()
Strip(s) == LStrip(RStrip(s))

\* the first index at which sep occurs in s, 0 when it does not
FindFirst(s, sep) ==
    LET hits == {i \in 1..(Len(s) - Len(sep) + 1) : SubSeq(s, i, i + Len(sep) - 1) = sep}
    IN  IF hits = {} THEN 0 ELSE CHOOSE i \in hits : \A j \in hits : i <= j

\* str.split(sep): the pieces between the occurrences of sep, left to right
RECURSIVE Split(_, _)
Split(s, sep) ==
    LET i == FindFirst(s, sep)
    IN  IF i = 0 THEN <<s>>
        ELSE <<SubSeq(s, 1, i - 1)>> \o Split(SubSeq(s, i + Len(sep), Len(s)), sep)

\* str.split(sep, 1)
SplitOnce(s, sep) ==
    LET i == FindFirst(s, sep)
    IN  IF i = 0 THEN <<s>>
        ELSE <<SubSeq(s, 1, i - 1), SubSeq(s, i + Len(sep), Len(s))>>

\* "".join(pieces)
RECURSIVE Concat(_)
Concat(pieces) ==
    IF pieces = <<>> THEN <<>> ELSE Head(pieces) \o Concat(Tail(pieces))

----------------------------------------------------------------------------
(* Module-level data of newscrawler.py.                                    *)

KEYWORDS ==
    { <<"c", "i", "t", "y", " ", "c", "o", "u", "n", "c", "i", "l">>,
      <<"o", "r", "d", "i", "n", "a", "n", "c", "e">>,
      <<"z", "o", "n", "i", "n", "g">>,
      <<"b", "u", "d", "g", "e", "t">>,
      <<"m", "i", "l", "l", "a", "g", "e">>,
      <<"p", "u", "b", "l", "i", "c", " ", "w", "o", "r", "k", "s">>,
      <<"s", "e", "w", "e", "r", "a", "g", "e", " ", "&", " ", "w", "a", "t", "e", "r", " ", "b", "o", "a", "r", "d">>,
      <<"s", "w", "b", "n", "o">>,
      <<"d", "p", "w">>,
      <<"p", "l", "a", "n", "n", "i", "n", "g", " ", "c", "o", "m", "m", "i", "s", "s", "i", "o", "n">>,
      <<"p", "e", "r", "m", "i", "t">>,
      <<"t", "a", "x">>,
      <<"m", "a", "y", "o", "r">>,
      <<"p", "o", "l", "l">>,
      <<"s", "c", "h", "o", "o", "l", " ", "b", "o", "a", "r", "d">>,
      <<"r", "e", "f", "o", "r", "m">>,
      <<"b", "o", "n", "d">>,
      <<"l", "e", "v", "y">>,
      <<"l", "a", "n", "d", " ", "u", "s", "e">>,
      <<"i", "n", "f", "r", "a", "s", "t", "r", "u", "c", "t", "u", "r", "e">>,
      <<"l", "i", "t", "i", "g", "a", "t", "i", "o", "n">>,
      <<"c", "i", "t", "y", " ", "h", "a", "l", "l">>,
      <<"m", "u", "n", "i", "c", "i", "p", "a", "l">>,
      <<"n", "o", "p", "d">>,
      <<"n", "o", "f", "d">>,
      <<"c", "r", "i", "m", "e">>,
      <<"p", "u", "b", "l", "i", "c", " ", "s", "a", "f", "e", "t", "y">>,
      <<"d", "r", "a", "i", "n", "a", "g", "e">>,
      <<"f", "l", "o", "o", "d", "i", "n", "g">>,
      <<"a", "f", "f", "o", "r", "d", "a", "b", "l", "e", " ", "h", "o", "u", "s", "i", "n", "g">>,
      <<"r", "t", "a">>,
      <<"s", "t", "r", "e", "e", "t", "c", "a", "r">>,
      <<"n", "e", "i", "g", "h", "b", "o", "r", "h", "o", "o", "d">>,
      <<"c", "i", "t", "y", " ", "a", "t", "t", "o", "r", "n", "e", "y">>,
      <<"a", "u", "d", "i", "t">>,
      <<"t", "o", "u", "r", "i", "s", "m">>,
      <<"e", "c", "o", "n", "o", "m", "i", "c", " ", "d", "e", "v", "e", "l", "o", "p", "m", "e", "n", "t">>,
      <<"p", "r", "o", "p", "e", "r", "t", "y", " ", "t", "a", "x">>,
      <<"b", "l", "i", "g", "h", "t">>,
      <<"s", "a", "n", "i", "t", "a", "t", "i", "o", "n">>,
      <<"s", "t", "r", "e", "e", "t", " ", "r", "e", "p", "a", "i", "r">>,
      <<"p", "o", "t", "h", "o", "l", "e">>,
      <<"t", "r", "a", "f", "f", "i", "c">>,
      <<"p", "a", "r", "k", "i", "n", "g">> }

UrlA == <<"h", "t", "t", "p", "s", ":", "/", "/", "e", "x", "a", "m", "p", "l", "e", ".", "c", "o", "m", "/", "a">>
UrlB == <<"h", "t", "t", "p", "s", ":", "/", "/", "e", "x", "a", "m", "p", "l", "e", ".", "c", "o", "m", "/", "b">>
NoUrl == <<>>
HashA == <<"2", "d", "c", "e", "0", "a", "4", "c", "5", "0", "4", "4", "1", "b", "f", "c">>
HashB == <<"d", "7", "f", "e", "5", "6", "8", "b", "3", "1", "a", "e", "0", "f", "b", "9">>

\* hashlib.sha256(s).hexdigest()[:16], tabulated for the URLs of the model
sha16(s) ==
    CASE s = UrlA -> HashA
      [] s = UrlB -> HashB

----------------------------------------------------------------------------
(* The environment: feed entries, rendered pages, the clock.               *)

TitleTax == <<"T", "a", "x">>
TitleCats == <<"C", "a", "t", "s">>
SourceLens == <<"L", "e", "n", "s">>
TextTax == <<"N", "e", "w", " ", "t", "a", "x">>
TextCats == <<"c", "a", "t", "s", " ", "n", "a", "p">>
PublishedIso == <<"2", "0", "2", "4", "-", "0", "4", "-", "3", "0", "T", "0", "8", ":", "0", "0", ":", "0", "0">>
DayPrefix == <<"2", "0", "2", "4", "-", "0", "5", "-", "0">>
ClockSuffix == <<"T", "1", "2", ":", "0", "0", ":", "0", "0", "+", "0", "0", ":", "0", "0">>
MdSuffix == <<".", "m", "d">>
Ellipsis == <<".", ".", ".">>

\* the entries the feeds can carry, as fetch_rss_entries normalises them
FeedItems ==
    { [title |-> TitleTax,  url |-> UrlA,  published |-> <<>>,         source |-> SourceLens],
      [title |-> TitleCats, url |-> UrlB,  published |-> PublishedIso, source |-> SourceLens],
      [title |-> TitleTax,  url |-> NoUrl, published |-> <<>>,         source |-> SourceLens] }

RECURSIVE SeqsUpTo(_, _)
SeqsUpTo(S, n) ==
    IF n = 0 THEN {<<>>}
    ELSE LET shorter == SeqsUpTo(S, n - 1)
         IN  shorter \cup {Append(s, x) : s \in shorter, x \in S}

Feeds == SeqsUpTo(FeedItems, MaxFeed)

\* what extract_text can return for a page: (title, text)
Pages ==
    { [title |-> <<>>,      text |-> <<>>],
      [title |-> <<>>,      text |-> TextTax],
      [title |-> TitleCats, text |-> TextCats] }

\* dt.date.today().isoformat()
TodayIso(d) == Append(DayPrefix, DigitSeq[d + 1])

\* dt.datetime.now(dt.timezone.utc).isoformat()
NowIso(d) == TodayIso(d) \o ClockSuffix

----------------------------------------------------------------------------
(* Functions of newscrawler.py.                                            *)

PreviewLen == 200
TitleLen == 50
DateLen == 10

\* mutant of get_seen_urls: the url field is collected instead of the id
get_seen_urls_by_url(arts) == {arts[i].url : i \in 1..Len(arts)} \ {<<>>}

\* get_seen_urls: the ids of the records that have a (non-empty) id
get_seen_urls(arts) == {arts[i].id : i \in 1..Len(arts)} \ {<<>>}

\* load_articles_from_box, given whether the Box API answers; the result is
\* [raised, data, ledger]: whether it raised, the list returned and the
\* remote ledger it leaves
load_articles_from_box(ledger, api_ok) ==
    IF ~api_ok THEN [raised |-> TRUE, data |-> <<>>, ledger |-> ledger]
    ELSE CASE ledger.kind = "absent" ->
                [raised |-> FALSE, data |-> <<>>,
                 ledger |-> [kind |-> "list", recs |-> <<>>]]
           [] ledger.kind = "undecodable" ->
                [raised |-> TRUE, data |-> <<>>, ledger |-> ledger]
           [] ledger.kind = "list" ->
                [raised |-> FALSE, data |-> ledger.recs, ledger |-> ledger]
           [] ledger.kind = "notlist" ->
                [raised |-> FALSE, data |-> <<>>, ledger |-> ledger]

\* save_articles_to_box: articles.json is replaced (or created) with the list
save_articles_to_box(ledger, arts) == [kind |-> "list", recs |-> arts]

\* box_upload_file: the file of that name is updated when the folder lists
\* one, and created otherwise
box_upload_file(files, box_filename) ==
    IF box_filename \in files THEN files ELSE files \cup {box_filename}

\* mutant of seen_add: the id is not remembered
seen_add_forgotten(s, key) == s

\* seen.add(key)
seen_add(s, key) == s \cup {key}

\* mutant of extended: only the new records are kept
extended_new_only(arts, new) == new

\* articles.extend(new_articles)
extended(arts, new) == arts \o new

\* looks_relevant
looks_relevant(title, txt) ==
    LET blob == Lower(title \o <<"\n">> \o txt)
    IN  \E k \in KEYWORDS : IsSubstr(k, blob)

\* the content_preview expression of main()
content_preview(full_text) ==
    IF Len(full_text) > PreviewLen THEN Prefix(full_text, PreviewLen) \o Ellipsis
    ELSE full_text

\* the rec literal of main()
make_rec(key, item, title, full_text, d) ==
    [id |-> key, source |-> item.source, url |-> item.url, title |-> title,
     published |-> item.published, saved_at |-> NowIso(d),
     content_preview |-> content_preview(full_text)]

KeptInTitle(c) == IsAlnum(c) \/ c \in {" ", "-", "_"}

\* clean_title of main(): filter, rstrip, then cut
clean_title(title) == Prefix(RStrip(SelectSeq(title, KeptInTitle)), TitleLen)

\* published_date of main()
published_date(r, d) ==
    IF r.published # <<>> THEN Prefix(r.published, DateLen) ELSE TodayIso(d)

\* md_filename of main()
make_md_filename(r, title, d) ==
    published_date(r, d) \o <<"_">> \o r.id \o <<"_">> \o clean_title(title) \o MdSuffix

Delimiter == <<"-", "-", "-">>
KeySource == <<"s", "o", "u", "r", "c", "e">>
KeyTitle == <<"t", "i", "t", "l", "e">>
KeyUrl == <<"u", "r", "l">>
KeyPublished == <<"p", "u", "b", "l", "i", "s", "h", "e", "d">>
KeySavedAt == <<"s", "a", "v", "e", "d", "_", "a", "t">>

\* record_md: the frontmatter block, a blank line, the text; the document is
\* ASCII in this model, so its UTF-8 bytes are its characters
record_md(r, full_text) ==
    Delimiter \o <<"\n">>
    \o KeySource \o <<":", " ">> \o r.source \o <<"\n">>
    \o KeyTitle \o <<":", " ">> \o r.title \o <<"\n">>
    \o KeyUrl \o <<":", " ">> \o r.url \o <<"\n">>
    \o KeyPublished \o <<":", " ">> \o r.published \o <<"\n">>
    \o KeySavedAt \o <<":", " ">> \o r.saved_at \o <<"\n">>
    \o Delimiter \o <<"\n">>
    \o <<"\n">>
    \o full_text \o <<"\n">>

----------------------------------------------------------------------------
(* Functions of article_vectorize.py.                                      *)

\* d[k] = v on a dict, modelled as a function on its keys
DictSet(d, k, v) == [x \in DOMAIN d \cup {k} |-> IF x = k THEN v ELSE d[x]]

EmptyDict == [x \in {} |-> <<>>]

\* the frontmatter loop of make_vector_db over the lines from index i on
RECURSIVE ParseLines(_, _, _)
ParseLines(lines, i, d) ==
    IF i > Len(lines) THEN d
    ELSE LET line == lines[i]
         IN  IF IsSubstr(<<":">>, line)
             THEN LET kv == SplitOnce(line, <<":">>)
                  IN  ParseLines(lines, i + 1, DictSet(d, Strip(kv[1]), Strip(kv[2])))
             ELSE ParseLines(lines, i + 1, d)

\* make_vector_db on one file's content: skipped when there are fewer than
\* three parts, otherwise the frontmatter and the article text
parse_md(content) ==
    LET parts == Split(content, Delimiter)
    IN  IF Len(parts) < 3 THEN [skipped |-> TRUE]
        ELSE [skipped |-> FALSE,
              frontmatter |-> ParseLines(Split(Strip(parts[2]), <<"\n">>), 1, EmptyDict),
              article_text |-> Strip(parts[3])]

\* article_id of make_vector_db: basename without '.md', split on '_', field 1
article_id(md_name) == Split(Concat(Split(md_name, MdSuffix)), <<"_">>)[2]

----------------------------------------------------------------------------
(* The crawler process: main() and the __main__ guard.                     *)

NoRec == [id |-> <<>>]

Outcome(o) == outcomes' = Append(outcomes, o)

ClearItem == title_ext' = <<>> /\ text' = <<>> /\ rec' = NoRec /\ md_filename' = <<>>

\* the process ends: its loop state is gone (feed, articles and new_articles
\* are kept as the record of what the run did)
Exit == idx' = 1 /\ seen' = {} /\ outcomes' = <<>> /\ ClearItem

\* main() up to the for loop: load the ledger, build the seen set
Start ==
    /\ pc = "idle"
    /\ \E api_ok \in BOOLEAN :
         LET r == load_articles_from_box(box_ledger, api_ok)
         IN  /\ box_ledger' = r.ledger
             /\ ledger0' = r.ledger
             /\ articles' = r.data
             /\ seen' = get_seen_urls(r.data)
             /\ new_articles' = <<>>
             /\ feed' = feed
             /\ idx' = 1
             /\ outcomes' = <<>>
             /\ prev_result' = run_result
             /\ IF r.raised
                THEN pc' = "idle" /\ run_result' = "fatal"
                ELSE pc' = "loop" /\ run_result' = "running"
    /\ ClearItem
    /\ UNCHANGED <<today, box_files, out_files, fn_in, fn_out>>

\* an entry without url, or whose id is in seen, is skipped
Skip ==
    /\ pc = "loop" /\ idx <= Len(feed)
    /\ LET item == feed[idx]
       IN  \/ item.url = NoUrl /\ Outcome("NO_URL")
           \/ item.url # NoUrl /\ sha16(item.url) \in seen /\ Outcome("DEDUPED_OUT")
    /\ idx' = idx + 1
    /\ UNCHANGED <<today, box_ledger, box_files, out_files, pc, run_result, feed,
                   articles, seen, new_articles, title_ext, text, rec, md_filename,
                   ledger0, prev_result, fn_in, fn_out>>

NewItem == pc = "loop" /\ idx <= Len(feed) /\ feed[idx].url # NoUrl
           /\ sha16(feed[idx].url) \notin seen

\* mutant of ItemFailed: the failed entry's id is remembered as seen
ItemFailedMarksSeen ==
    /\ Outcome("FAILED")
    /\ pc' = "loop" /\ idx' = idx + 1
    /\ seen' = seen \cup {sha16(feed[idx].url)}
    /\ ClearItem
    /\ UNCHANGED <<today, box_ledger, box_files, out_files, run_result, feed,
                   articles, new_articles, ledger0, prev_result, fn_in, fn_out>>

\* the except clause of the for loop: the entry is dropped, the loop goes on
ItemFailed ==
    /\ Outcome("FAILED")
    /\ pc' = "loop" /\ idx' = idx + 1
    /\ ClearItem
    /\ UNCHANGED <<today, box_ledger, box_files, out_files, run_result, feed,
                   articles, seen, new_articles, ledger0, prev_result,
                   fn_in, fn_out>>

\* extract_text raises
ExtractRaises == NewItem /\ ItemFailed

\* extract_text returns a page: relevance check, record and filename
Extract ==
    /\ NewItem
    /\ \E page \in Pages :
         LET item == feed[idx]
             key == sha16(item.url)
             title == IF page.title # <<>> THEN page.title ELSE item.title
             full_text == Strip(page.text)
             r == make_rec(key, item, title, full_text, today)
         IN  IF ~looks_relevant(title, page.text)
             THEN /\ Outcome("IRRELEVANT")
                  /\ pc' = "loop" /\ idx' = idx + 1
                  /\ ClearItem
             ELSE /\ title_ext' = page.title
                  /\ text' = page.text
                  /\ rec' = r
                  /\ md_filename' = make_md_filename(r, title, today)
                  /\ pc' = "write"
                  /\ UNCHANGED <<idx, outcomes>>
    /\ UNCHANGED <<today, box_ledger, box_files, out_files, run_result, feed,
                   articles, seen, new_articles, ledger0, prev_result,
                   fn_in, fn_out>>

\* md_path.write_bytes succeeds
WriteLocal ==
    /\ pc = "write"
    /\ out_files' = out_files \cup {md_filename}
    /\ pc' = "upload"
    /\ UNCHANGED <<today, box_ledger, box_files, run_result, feed, idx, articles,
                   seen, new_articles, title_ext, text, rec, md_filename, outcomes,
                   ledger0, prev_result, fn_in, fn_out>>

\* md_path.write_bytes raises
WriteRaises == pc = "write" /\ ItemFailed

\* box_upload_file succeeds
Upload ==
    /\ pc = "upload"
    /\ box_files' = box_upload_file(box_files, md_filename)
    /\ pc' = "track"
    /\ UNCHANGED <<today, box_ledger, out_files, run_result, feed, idx, articles,
                   seen, new_articles, title_ext, text, rec, md_filename, outcomes,
                   ledger0, prev_result, fn_in, fn_out>>

\* mutant of UploadRaises: the record is tracked although the upload raised
UploadRaisesTracks ==
    /\ pc = "upload"
    /\ new_articles' = Append(new_articles, rec)
    /\ seen' = seen_add(seen, rec.id)
    /\ Outcome("PERSISTED")
    /\ pc' = "loop" /\ idx' = idx + 1
    /\ ClearItem
    /\ UNCHANGED <<today, box_ledger, box_files, out_files, run_result, feed,
                   articles, ledger0, prev_result, fn_in, fn_out>>

\* box_upload_file raises BoxAPIException
UploadRaises == pc = "upload" /\ ItemFailed

\* new_articles.append(rec); seen.add(key); time.sleep(10)
Track ==
    /\ pc = "track"
    /\ new_articles' = Append(new_articles, rec)
    /\ seen' = seen_add(seen, rec.id)
    /\ Outcome("PERSISTED")
    /\ pc' = "loop" /\ idx' = idx + 1
    /\ ClearItem
    /\ UNCHANGED <<today, box_ledger, box_files, out_files, run_result, feed,
                   articles, ledger0, prev_result, fn_in, fn_out>>

\* the generator is exhausted
EndLoop ==
    /\ pc = "loop" /\ idx > Len(feed)
    /\ pc' = "finalize"
    /\ UNCHANGED <<today, box_ledger, box_files, out_files, run_result, feed, idx,
                   articles, seen, new_articles, title_ext, text, rec, md_filename,
                   outcomes, ledger0, prev_result, fn_in, fn_out>>

\* the if new_articles block of main(): extend and save, or the summary
Finalize ==
    /\ pc = "finalize"
    /\ IF new_articles # <<>>
       THEN /\ articles' = extended(articles, new_articles)
            /\ \E api_ok \in BOOLEAN :
                 IF api_ok
                 THEN /\ box_ledger' = save_articles_to_box(box_ledger, articles')
                      /\ run_result' = "ok"
                 ELSE /\ box_ledger' = box_ledger
                      /\ run_result' = "fatal"
       ELSE /\ run_result' = "ok"
            /\ UNCHANGED <<articles, box_ledger>>
    /\ pc' = "idle"
    /\ UNCHANGED <<today, box_files, out_files, feed, idx, seen, new_articles,
                   title_ext, text, rec, md_filename, outcomes, ledger0, prev_result, fn_in, fn_out>>

Ended(how) ==
    /\ pc \notin {"idle"}
    /\ pc' = "idle"
    /\ run_result' = how
    /\ Exit
    /\ UNCHANGED <<today, box_ledger, box_files, out_files, feed, articles,
                   new_articles, ledger0, prev_result, fn_in, fn_out>>

\* mutant of Interrupt: the handler saves what the run has persisted so far
InterruptFlushes ==
    /\ pc \notin {"idle"}
    /\ pc' = "idle"
    /\ run_result' = "interrupted"
    /\ box_ledger' = IF new_articles # <<>>
                     THEN save_articles_to_box(box_ledger, extended(articles, new_articles))
                     ELSE box_ledger
    /\ Exit
    /\ UNCHANGED <<today, box_files, out_files, feed, articles, new_articles, ledger0,
                   prev_result, fn_in, fn_out>>

\* KeyboardInterrupt: not an Exception, so it leaves main() and is caught by
\* the __main__ guard
Interrupt == Ended("interrupted")

\* the process is killed
Crash == Ended("crashed")

\* the date changes
NextDay ==
    /\ pc = "idle"
    /\ today < MaxDay
    /\ today' = today + 1
    /\ UNCHANGED <<box_ledger, box_files, out_files, pc, run_result, feed, idx,
                   articles, seen, new_articles, title_ext, text, rec, md_filename,
                   outcomes, ledger0, prev_result, fn_in, fn_out>>

\* a record an earlier run left in the ledger, with its document
OldRec ==
    [id |-> HashB, source |-> SourceLens, url |-> UrlB, title |-> TitleCats,
     published |-> PublishedIso, saved_at |-> PublishedIso \o ClockSuffix,
     content_preview |-> TextTax]

\* what the Box folder can hold before the first run: no articles.json, one
\* that does not decode, one that is no list, or a ledger with its documents
InitFolders ==
    { [ledger |-> [kind |-> "absent", recs |-> <<>>], files |-> {}],
      [ledger |-> [kind |-> "undecodable", recs |-> <<>>], files |-> {}],
      [ledger |-> [kind |-> "notlist", recs |-> <<>>], files |-> {}],
      [ledger |-> [kind |-> "list", recs |-> <<OldRec>>],
       files |-> {make_md_filename(OldRec, OldRec.title, 1)}] }

Init ==
    /\ today = 1
    /\ \E folder \in InitFolders : box_ledger = folder.ledger /\ box_files = folder.files
    /\ out_files = {}
    /\ pc = "idle"
    /\ run_result = "none"
    /\ feed \in Feeds
    /\ idx = 1
    /\ articles = <<>>
    /\ seen = {}
    /\ new_articles = <<>>
    /\ title_ext = <<>>
    /\ text = <<>>
    /\ rec = NoRec
    /\ md_filename = <<>>
    /\ outcomes = <<>>
    /\ ledger0 = box_ledger
    /\ prev_result = "none"
    /\ fn_in = <<>>
    /\ fn_out = [done |-> FALSE]

Next ==
    \/ Start
    \/ Skip
    \/ ExtractRaises
    \/ Extract
    \/ WriteLocal
    \/ WriteRaises
    \/ Upload
    \/ UploadRaises
    \/ Track
    \/ EndLoop
    \/ Finalize
    \/ Interrupt
    \/ Crash
    \/ NextDay

Spec == Init /\ [][Next]_vars

----------------------------------------------------------------------------
(* The document format: record_md read back by make_vector_db.             *)

MaxDocLen == 3

DocChars == {"a", "-", ":", " "}

\* titles and texts as main() passes them on: stripped
DocStrings == {s \in SeqsUpTo(DocChars, MaxDocLen) : Strip(s) = s}

DocInputs ==
    { [rec |-> [id |-> HashA, source |-> SourceLens, url |-> UrlA, title |-> t,
                published |-> p, saved_at |-> NowIso(1),
                content_preview |-> content_preview(b)],
       full_text |-> b] : t \in DocStrings, b \in DocStrings, p \in {<<>>, PublishedIso} }

\* the crawler process at rest, for the specifications of single functions
CrawlerAtRest ==
    /\ today = 1
    /\ box_ledger = [kind |-> "absent", recs |-> <<>>]
    /\ box_files = {}
    /\ out_files = {}
    /\ pc = "idle"
    /\ run_result = "none"
    /\ feed = <<>>
    /\ idx = 1
    /\ articles = <<>>
    /\ seen = {}
    /\ new_articles = <<>>
    /\ title_ext = <<>>
    /\ text = <<>>
    /\ rec = NoRec
    /\ md_filename = <<>>
    /\ outcomes = <<>>
    /\ ledger0 = box_ledger
    /\ prev_result = "none"

DocInit == CrawlerAtRest /\ fn_in \in DocInputs /\ fn_out = [done |-> FALSE]

\* the document is rendered by record_md and read back by make_vector_db
RenderAndParse ==
    /\ ~fn_out.done
    /\ fn_out' = [done |-> TRUE, parsed |-> parse_md(record_md(fn_in.rec, fn_in.full_text))]
    /\ UNCHANGED <<fn_in, crawl_vars>>

SpecDoc == DocInit /\ [][RenderAndParse]_vars

\* what the consumer should recover from the document of record r
Frontmatter(r) ==
    [k \in {KeySource, KeyTitle, KeyUrl, KeyPublished, KeySavedAt} |->
        CASE k = KeySource -> r.source
          [] k = KeyTitle -> r.title
          [] k = KeyUrl -> r.url
          [] k = KeyPublished -> r.published
          [] k = KeySavedAt -> r.saved_at]

----------------------------------------------------------------------------
(* The sanitized title of the document filename.                           *)

MaxPad == 50
MaxTail == 2

TitleChars == {"a", " ", "!", "-"}

Pad(n) == [i \in 1..n |-> "a"]

\* titles of every length up to MaxPad + MaxTail, with every ending
TitleInputs == {Pad(n) \o t : n \in 0..MaxPad, t \in SeqsUpTo(TitleChars, MaxTail)}

TitleInit == CrawlerAtRest /\ fn_in \in TitleInputs /\ fn_out = [done |-> FALSE]

\* the title is sanitized as main() does for the filename
Sanitize ==
    /\ ~fn_out.done
    /\ fn_out' = [done |-> TRUE, clean |-> clean_title(fn_in)]
    /\ UNCHANGED <<fn_in, crawl_vars>>

SpecTitle == TitleInit /\ [][Sanitize]_vars

----------------------------------------------------------------------------
(* The document filename, as main() builds it and make_vector_db reads it.  *)

MaxNameTitle == 2

PublishedRfc == <<"T", "u", "e", ",", " ", "3", "0", " ", "A", "p", "r", " ", "2", "0", "2", "4", " ", "0", "8", ":", "0", "0", ":", "0", "0", " ", "+", "0", "0", "0", "0">>
PublishedUnderscore == <<"2", "0", "2", "4", "_", "0", "4", "_", "3", "0">>

\* the published strings a feed can supply: none, ISO, RFC 822, free text
PublishedInputs == {<<>>, PublishedIso, PublishedRfc, PublishedUnderscore}

NameTitleChars == {"a", "_", " ", "!"}

NameInputs ==
    { [item |-> [title |-> t, url |-> UrlA, published |-> p, source |-> SourceLens],
       day |-> d] :
        t \in SeqsUpTo(NameTitleChars, MaxNameTitle), p \in PublishedInputs, d \in 1..MaxDay }

NameInit == CrawlerAtRest /\ fn_in \in NameInputs /\ fn_out = [done |-> FALSE]

\* main() builds rec and md_filename for the entry; make_vector_db takes the
\* document identifier from the name
BuildName ==
    /\ ~fn_out.done
    /\ LET item == fn_in.item
           r == make_rec(sha16(item.url), item, item.title, <<>>, fn_in.day)
           name == make_md_filename(r, item.title, fn_in.day)
       IN  fn_out' = [done |-> TRUE, rec |-> r, md_filename |-> name,
                      fields |-> Split(Concat(Split(name, MdSuffix)), <<"_">>),
                      article_id |-> article_id(name)]
    /\ UNCHANGED <<fn_in, crawl_vars>>

SpecName == NameInit /\ [][BuildName]_vars

\* YYYY-MM-DD
IsIsoDate(s) ==
    /\ Len(s) = DateLen
    /\ \A i \in 1..Len(s) :
         IF i \in {5, 8} THEN s[i] = "-" ELSE s[i] \in Range(DigitSeq)

----------------------------------------------------------------------------
(* extract_text on a rendered page.                                        *)
(*                                                                         *)
(* A page is what the extraction stages read of the rendered HTML: the     *)
(* text trafilatura.extract returns (or None), the title of the metadata   *)
(* (or None), the title element (or None), whether an article or content   *)
(* element is found, and the p and h2 elements of the page in document     *)
(* order.  An element is in the body outside the article, in the article,  *)
(* or in a nav, aside, header or footer of the article.                    *)

MaxElems == 2
MinTextLen == 100
MinParaLen == 20

None == [some |-> FALSE, val |-> <<>>]
Some(v) == [some |-> TRUE, val |-> v]

\* the text of an element, get_text(strip=True): one letter per kind of
\* element, so that a joined text shows which elements it was made of
ElemText(e) ==
    LET ch == CASE e.where = "stripped" -> "n"
                [] e.where = "article" /\ e.tag = "p" -> "p"
                [] e.where = "article" /\ e.tag = "h2" -> "h"
                [] e.where = "body" /\ e.tag = "p" -> "b"
                [] e.where = "body" /\ e.tag = "h2" -> "g"
    IN  [j \in 1..e.len |-> ch]

ParaSep == <<"\n", "\n">>

\* "\n\n".join([p for p in paragraphs if len(p) > 20])
RECURSIVE JoinLong(_)
JoinLong(paragraphs) ==
    IF paragraphs = <<>> THEN <<>>
    ELSE LET rest == JoinLong(Tail(paragraphs))
             p == Head(paragraphs)
         IN  IF Len(p) > MinParaLen
             THEN (IF rest = <<>> THEN p ELSE p \o ParaSep \o rest)
             ELSE rest

Texts(elems) == [i \in 1..Len(elems) |-> ElemText(elems[i])]

IsStripped(e) == e.where = "stripped"
NotStripped(e) == ~IsStripped(e)

\* element.decompose() for the nav, aside, header and footer of the article
Decomposed(elems) == SelectSeq(elems, NotStripped)

InArticleText(e) == e.where \in {"article", "stripped"} /\ e.tag \in {"p", "h2", "h3"}

\* the structural stage: the p, h2 and h3 of the article
StructuralText(soup) == JoinLong(Texts(SelectSeq(soup, InArticleText)))

IsParagraph(e) == e.tag = "p"

\* the last stage: every p of the page
AllParagraphsText(soup) == JoinLong(Texts(SelectSeq(soup, IsParagraph)))

\* mutant of IsWeak: a text of exactly 100 characters counts as weak
IsWeakInclusive(downloaded) ==
    ~downloaded.some \/ downloaded.val = <<>> \/ Len(downloaded.val) <= MinTextLen

\* not downloaded or len(downloaded) < 100
IsWeak(downloaded) ==
    ~downloaded.some \/ downloaded.val = <<>> \/ Len(downloaded.val) < MinTextLen

\* extract_text from the page source on: the title and the text returned,
\* and which fallback stages ran
extract_text(page) ==
    LET downloaded0 == page.trafilatura
        title0 == IF page.meta_title.some THEN page.meta_title.val ELSE <<>>
        fallback == IsWeak(downloaded0)
        structural == fallback /\ page.article
        soup == IF structural THEN Decomposed(page.elements) ELSE page.elements
        downloaded1 == IF structural THEN Some(StructuralText(soup)) ELSE downloaded0
        all_paragraphs == fallback /\ IsWeak(downloaded1)
        downloaded2 == IF all_paragraphs THEN Some(AllParagraphsText(soup)) ELSE downloaded1
        title1 == IF fallback /\ title0 = <<>>
                  THEN (IF page.title_tag.some THEN Strip(page.title_tag.val) ELSE <<>>)
                  ELSE title0
    IN  [title |-> title1,
         text |-> IF downloaded2.some THEN downloaded2.val ELSE <<>>,
         ran_structural |-> structural,
         ran_all_paragraphs |-> all_paragraphs]

ElemLens == {20, 21, 48, 49}

Elems == [tag : {"p", "h2"}, where : {"body", "article", "stripped"}, len : ElemLens]

TextOf(ch, n) == [j \in 1..n |-> ch]

TitleMeta == <<"M", "e", "t", "a">>
TitleTag == <<"T", "a", "g">>

ExtractInputs ==
    { page \in [trafilatura : {None, Some(TextOf("t", MinTextLen - 1)), Some(TextOf("t", MinTextLen))},
                meta_title : {None, Some(TitleMeta)},
                title_tag : {None, Some(TitleTag)},
                article : BOOLEAN,
                elements : SeqsUpTo(Elems, MaxElems)] :
        page.article \/ \A i \in 1..Len(page.elements) : page.elements[i].where = "body" }

ExtractInit == CrawlerAtRest /\ fn_in \in ExtractInputs /\ fn_out = [done |-> FALSE]

\* extract_text returns for the page
ExtractPage ==
    /\ ~fn_out.done
    /\ fn_out' = [done |-> TRUE, result |-> extract_text(fn_in)]
    /\ UNCHANGED <<fn_in, crawl_vars>>

SpecExtract == ExtractInit /\ [][ExtractPage]_vars

----------------------------------------------------------------------------
(* Properties.                                                             *)

RecIds(recs) == {recs[i].id : i \in 1..Len(recs)}

\* the list a run gets from a remote ledger
LoadedRecs(ledger) == IF ledger.kind = "list" THEN ledger.recs ELSE <<>>

\* the ids of the feed entries that carry a url
CandidateIds(f) == {sha16(f[i].url) : i \in {j \in 1..Len(f) : f[j].url # NoUrl}}

\* the remote documents whose name carries id, as the embedding script reads it
RemoteDocs(id) == {n \in box_files : article_id(n) = id}

\* C1: the remote ledger never holds two records with the same id, whatever
\* the runs before did (duplicate urls in the feed, rejected or failed
\* entries, crashes, interruptions).
C1_LedgerIdsUnique ==
    box_ledger.kind = "list" =>
        \A i, j \in 1..Len(box_ledger.recs) :
            box_ledger.recs[i].id = box_ledger.recs[j].id => i = j

\* C1 witness: a run over a feed that carries the same url twice has completed
\* and saved a record for it.
C1_Witness ==
    /\ pc = "idle" /\ run_result = "ok" /\ new_articles # <<>>
    /\ Len(feed) = 2 /\ feed[1].url = feed[2].url /\ feed[1].url # NoUrl
    /\ box_ledger.kind = "list"
    /\ sha16(feed[1].url) \in RecIds(box_ledger.recs)

\* C2: in a run that follows a crashed run, once the upload of an entry has
\* returned there is exactly one remote document for that entry's id (the
\* upload replaced the crashed run's document instead of adding one).
C2_RetryReplacesDocument ==
    (prev_result = "crashed" /\ pc = "track") => Cardinality(RemoteDocs(rec.id)) = 1

\* C3 as stated: a run that follows a completed run over the same feed and
\* the ledger it left produces no new record.
C3_RepeatRunAddsNothing ==
    prev_result = "ok" => new_articles = <<>>

\* C3 amended: a run that follows a completed run over the same feed produces
\* no new record provided every candidate id of the feed is in the ledger it
\* loads.
C3_RepeatRunAddsNothingWhenAllSeen ==
    (prev_result = "ok" /\ CandidateIds(feed) \subseteq RecIds(LoadedRecs(ledger0)))
        => new_articles = <<>>

\* C3 witness: such a repeated run has gone through its whole feed.
C3_Witness ==
    /\ prev_result = "ok" /\ pc = "finalize"
    /\ CandidateIds(feed) # {}
    /\ CandidateIds(feed) \subseteq RecIds(LoadedRecs(ledger0))
    /\ new_articles = <<>>

\* C4 as stated: after an interruption every entry persisted earlier in the
\* run is recorded in the remote ledger.
C4_InterruptKeepsPersisted ==
    run_result = "interrupted" => RecIds(new_articles) \subseteq RecIds(LoadedRecs(box_ledger))

\* C4 amended: after an interruption the remote ledger is exactly as the run
\* loaded it, and no entry persisted in the run is recorded in it.
C4_InterruptLeavesLedgerAsLoaded ==
    run_result = "interrupted" =>
        /\ box_ledger = ledger0
        /\ RecIds(new_articles) \cap RecIds(LoadedRecs(box_ledger)) = {}

\* C4 witness: a run was interrupted after it had persisted an entry.
C4_Witness == run_result = "interrupted" /\ new_articles # <<>>

\* C5: the remote ledger is only ever changed by the load creating a missing
\* one (empty), or by the single save at the end of a run, after the last
\* feed entry, with new records, to the loaded list followed by the new
\* records; a process that ends in any other way leaves it as loaded.
C5_LedgerWrittenOnceAtEnd ==
    [][ /\ box_ledger' # box_ledger =>
             \/ /\ pc = "idle" /\ box_ledger.kind = "absent"
                /\ box_ledger' = [kind |-> "list", recs |-> <<>>]
             \/ /\ pc = "finalize" /\ pc' = "idle" /\ idx > Len(feed)
                /\ new_articles # <<>>
                /\ box_ledger' = [kind |-> "list",
                                  recs |-> LoadedRecs(ledger0) \o new_articles]
        /\ (pc # "idle" /\ pc' = "idle" /\ (run_result' # "ok" \/ new_articles = <<>>))
             => box_ledger' = ledger0
      ]_vars

\* C5 witness: a run that loaded a non-empty ledger has saved it with new
\* records appended.
C5_Witness ==
    /\ pc = "idle" /\ run_result = "ok" /\ new_articles # <<>>
    /\ LoadedRecs(ledger0) # <<>>
    /\ box_ledger = [kind |-> "list", recs |-> LoadedRecs(ledger0) \o new_articles]

\* C6: a run gets past the load only when the remote ledger it leaves is a
\* list of records (the existing one, or the empty one it created).
C6_RunOnlyOnReadableLedger ==
    pc # "idle" => ledger0.kind = "list"

\* C7: no record or document is made for an entry whose extraction returned
\* no title and no text.
C7_EmptyExtractionRejected ==
    pc \in {"write", "upload", "track"} => ~(title_ext = <<>> /\ text = <<>>)

\* C8: when an entry fails, the seen set, the new records and the remote
\* ledger are untouched, its id is in neither, and the loop goes on with the
\* next entry.
C8_FailedItemIsSkipped ==
    [][ (Len(outcomes') = Len(outcomes) + 1 /\ outcomes'[Len(outcomes')] = "FAILED") =>
            /\ seen' = seen /\ new_articles' = new_articles /\ box_ledger' = box_ledger
            /\ sha16(feed[idx].url) \notin seen'
            /\ sha16(feed[idx].url) \notin RecIds(new_articles')
            /\ pc' = "loop" /\ idx' = idx + 1
      ]_vars

\* C8 witness: an entry failed and the entry after it was persisted.
C8_Witness ==
    \E i \in 1..(Len(outcomes) - 1) :
        outcomes[i] = "FAILED" /\ outcomes[i + 1] = "PERSISTED"

\* C9: the consumer recovers the frontmatter fields and the text of every
\* document record_md renders.
C9_DocumentRoundTrip ==
    fn_out.done =>
        /\ ~fn_out.parsed.skipped
        /\ fn_out.parsed.frontmatter = Frontmatter(fn_in.rec)
        /\ fn_out.parsed.article_text = fn_in.full_text

\* C10: the sanitized title holds only alphanumerics, spaces, hyphens and
\* underscores, has at most 50 characters and does not end in whitespace.
C10_CleanTitleShape ==
    fn_out.done =>
        /\ \A i \in 1..Len(fn_out.clean) : KeptInTitle(fn_out.clean[i])
        /\ Len(fn_out.clean) <= TitleLen
        /\ (fn_out.clean # <<>> => fn_out.clean[Len(fn_out.clean)] \notin Whitespace)

\* C11: the first underscore-separated field of every document filename is a
\* YYYY-MM-DD date and the second, which the embedding script takes as the
\* document identifier, is the record's id.
C11_FilenameConvention ==
    fn_out.done =>
        /\ IsIsoDate(fn_out.fields[1])
        /\ fn_out.article_id = fn_out.rec.id

\* the text trafilatura returned for the page, '' for None
ReadabilityText(page) == IF page.trafilatura.some THEN page.trafilatura.val ELSE <<>>

\* C12: the text returned is the readability text when it has at least 100
\* characters; otherwise the structural text when an article element is found
\* and its text has at least 100 characters; otherwise the text of all
\* paragraphs.  No stage runs after a stage that gave at least 100 characters.
C12_FallbackOrder ==
    fn_out.done =>
        LET readable == ReadabilityText(fn_in)
            soup == Decomposed(fn_in.elements)
            structural == StructuralText(soup)
            paragraphs == AllParagraphsText(IF fn_in.article THEN soup ELSE fn_in.elements)
        IN  /\ fn_out.result.text =
                 IF Len(readable) >= MinTextLen THEN readable
                 ELSE IF fn_in.article /\ Len(structural) >= MinTextLen THEN structural
                 ELSE paragraphs
            /\ Len(readable) >= MinTextLen =>
                 ~fn_out.result.ran_structural /\ ~fn_out.result.ran_all_paragraphs
            /\ (fn_in.article /\ Len(structural) >= MinTextLen) =>
                 ~fn_out.result.ran_all_paragraphs

\* C12 witness: the readability text is short, the structural text alone has
\* at least 100 characters and differs from the text of all paragraphs, and
\* it is the text returned.
C12_Witness ==
    /\ fn_out.done
    /\ Len(ReadabilityText(fn_in)) < MinTextLen
    /\ fn_in.article
    /\ Len(StructuralText(Decomposed(fn_in.elements))) >= MinTextLen
    /\ StructuralText(Decomposed(fn_in.elements)) # AllParagraphsText(Decomposed(fn_in.elements))
    /\ fn_out.result.text = StructuralText(Decomposed(fn_in.elements))

\* C13: whenever the metadata gave no title, the title returned is the text
\* of the page's title element.
C13_TitleFallback ==
    (fn_out.done /\ ~fn_in.meta_title.some /\ fn_in.title_tag.some) =>
        fn_out.result.title = Strip(fn_in.title_tag.val)

\* the names in a folder that contain the id
DocsNaming(files, id) == {n \in files : IsSubstr(id, n)}

\* C14: every record in the list of new records has a document naming its id
\* in the local folder and in the remote folder, and every record of the
\* remote ledger has a document naming its id in the remote folder.
C14_LedgerRecordHasDocument ==
    /\ \A i \in 1..Len(new_articles) :
           /\ DocsNaming(out_files, new_articles[i].id) # {}
           /\ DocsNaming(box_files, new_articles[i].id) # {}
    /\ \A i \in 1..Len(box_ledger.recs) :
           DocsNaming(box_files, box_ledger.recs[i].id) # {}

\* C14 witness: a run in which an item failed has written a record of its own
\* to the remote ledger.
C14_Witness ==
    /\ pc = "idle"
    /\ run_result = "ok"
    /\ \E i \in 1..Len(outcomes) : outcomes[i] = "FAILED"
    /\ \E i \in 1..Len(box_ledger.recs) :
           /\ box_ledger.recs[i].id = HashA
           /\ \A j \in 1..Len(ledger0.recs) : ledger0.recs[j].id # HashA

====
